---- MODULE Spec2Model ----
(***************************************************************************)
(* A model of the vinxi proxy core: the proxy layer (vinxi.go), the rule   *)
(* registry (rule/rules.go) and the manager's HTTP controllers             *)
(* (manager/api.go, manager plugins controller).                           *)
(***************************************************************************)
EXTENDS Integers, Sequences, FiniteSets, TLC

VARIABLES
    pool,          \* Layer.Pool: phase -> priority -> handlers, in registration order
    finalHandler,  \* Layer.finalHandler
    parent,        \* Layer.parent is set
    muxes,         \* mux id -> [matchers, nested] of the multiplexers created by Mux
    nextId,        \* the next fresh handler value
    regLog,        \* history: the registration calls <<handler, phase, priority>>, in call order
    trace,         \* the handlers invoked by the last run, in order
    req,           \* the request of the last run
    Rules,         \* rule.Rules: name -> Info (0: no entry)
    writers,       \* the Register calls that are writing the map
    lookup,        \* the last lookup of the registry and what it observed
    aborted,       \* the process was aborted (a panic or a fatal runtime error)
    plugins,       \* plugin instance id -> [name, enabled, made]
    managerPlugins,\* ctx.Manager.Plugins: the manager's plugin set, in order
    scopes,        \* scope id -> [present, plugins] of the instance
    resp,          \* the last answer of a manager controller
    flight,        \* the request that is running through the instance's scopes
    applied        \* the plugins the last request invoked, in order

layerVars == <<pool, finalHandler, parent, muxes, nextId, regLog, trace, req>>
ruleVars == <<Rules, writers, lookup, aborted>>
adminVars == <<plugins, managerPlugins, scopes, resp, flight, applied>>

vars == <<layerVars, ruleVars, adminVars>>

----------------------------------------------------------------------------
\* Bounds of the layer model.
MaxHandlers == 2
MaxMux == 1
MaxMatchers == 2

Phases == {"request", "error"}
Priorities == {"Head", "Normal", "Tail"}
Matchers == 1..MaxMatchers

PrioRank(p) == CASE p = "Head" -> 0 [] p = "Normal" -> 1 [] p = "Tail" -> 2

Router == <<"router", 0>>
Plain(i) == <<"h", i>>
MuxH(k) == <<"mux", k>>
Final(f) == <<"final", f>>
ParentH == <<"parent", 0>>

EmptyStack == [Head |-> <<>>, Normal |-> <<>>, Tail |-> <<>>]
EmptyPool == [ph \in Phases |-> EmptyStack]
NoMux == [matchers |-> {}, passed |-> {}, nested |-> <<>>, made |-> FALSE]
NoReq == [phase |-> "none", stopper |-> 0, route |-> FALSE, match |-> {}, parentStops |-> FALSE]

\* layer.Layer.UsePriority: append the handler to the phase's priority bucket.
LayerUsePriority(p, phase, prio, h) ==
    [p EXCEPT ![phase][prio] = Append(@, h)]

\* layer.Layer.Use: registration at Normal priority.
LayerUse(p, phase, h) == LayerUsePriority(p, phase, "Normal", h)

\* The stack of a phase joined in priority order.
Join(stack) == stack.Head \o stack.Normal \o stack.Tail

\* mux.Mux.Match: every matcher given to If must accept the request.
MuxMatch(m, r) == \A x \in m.matchers : x \in r.match

RECURSIVE RunPlain(_, _)
\* A list of plain handlers run in order; each invokes its continuation unless
\* it is the request's stopper.
RunPlain(list, r) ==
    IF list = <<>> THEN [tr |-> <<>>, ok |-> TRUE]
    ELSE IF Head(list)[2] = r.stopper /\ Head(list)[1] = "h"
         THEN [tr |-> <<Head(list)>>, ok |-> FALSE]
         ELSE LET rest == RunPlain(Tail(list), r)
              IN  [tr |-> <<Head(list)>> \o rest.tr, ok |-> rest.ok]

\* One handler of the root layer invoked with the request.
Invoke(h, r, mx) ==
    CASE h[1] = "h" -> [tr |-> <<h>>, ok |-> h[2] # r.stopper]
      [] h[1] = "router" -> [tr |-> <<h>>, ok |-> ~r.route]
      [] h[1] = "mux" ->
            IF MuxMatch(mx[h[2]], r)
            THEN LET n == RunPlain(mx[h[2]].nested, r)
                 IN  [tr |-> <<h>> \o n.tr, ok |-> n.ok]
            ELSE [tr |-> <<h>>, ok |-> TRUE]

RECURSIVE RunList(_, _, _)
RunList(list, r, mx) ==
    IF list = <<>> THEN [tr |-> <<>>, ok |-> TRUE]
    ELSE LET one == Invoke(Head(list), r, mx)
         IN  IF ~one.ok THEN one
             ELSE LET rest == RunList(Tail(list), r, mx)
                  IN  [tr |-> one.tr \o rest.tr, ok |-> rest.ok]

\* layer.Layer.Run: the phase's handlers in priority order, then the parent
\* layer when one is set, then the final handler.
LayerRun(r) ==
    LET own == RunList(Join(pool[r.phase]), r, muxes)
        fin == IF finalHandler = "none" THEN <<>> ELSE <<Final(finalHandler)>>
    IN  IF ~own.ok THEN own.tr
        ELSE IF parent
             THEN IF r.parentStops THEN own.tr \o <<ParentH>>
                  ELSE own.tr \o <<ParentH>> \o fin
             ELSE own.tr \o fin

----------------------------------------------------------------------------
\* vinxi.New with the router registered in the normal bucket.
NewRouterAtNormal ==
    /\ pool = LayerUsePriority(EmptyPool, "request", "Normal", Router)
    /\ finalHandler = "DefaultForwarder"
    /\ parent = FALSE
    /\ regLog = <<<<Router, "request", "Normal">>>>

\* vinxi.New without the default final handler.
NewNoFinalHandler ==
    /\ pool = LayerUsePriority(EmptyPool, "request", "Tail", Router)
    /\ finalHandler = "none"
    /\ parent = FALSE
    /\ regLog = <<<<Router, "request", "Tail">>>>

\* vinxi.New: a fresh layer with the router at the tail of the request phase
\* and the default forwarder as final handler.
New ==
    /\ pool = LayerUsePriority(EmptyPool, "request", "Tail", Router)
    /\ finalHandler = "DefaultForwarder"
    /\ parent = FALSE
    /\ regLog = <<<<Router, "request", "Tail">>>>

OnlyLayer == UNCHANGED <<ruleVars, adminVars>>

InitLayer ==
    /\ New
    /\ muxes = [k \in 1..MaxMux |-> NoMux]
    /\ nextId = 1
    /\ trace = <<>>
    /\ req = NoReq

\* Every change of the topology ends the observation of the last run.
Forget == trace' = <<>> /\ req' = NoReq

\* Vinxi.Use(handler)
Use ==
    /\ nextId <= MaxHandlers
    /\ pool' = LayerUse(pool, "request", Plain(nextId))
    /\ regLog' = Append(regLog, <<Plain(nextId), "request", "Normal">>)
    /\ nextId' = nextId + 1
    /\ Forget
    /\ UNCHANGED <<finalHandler, parent, muxes>>
    /\ OnlyLayer

\* Vinxi.UsePhase(phase, handler)
UsePhase ==
    /\ nextId <= MaxHandlers
    /\ \E ph \in Phases :
          /\ pool' = LayerUse(pool, ph, Plain(nextId))
          /\ regLog' = Append(regLog, <<Plain(nextId), ph, "Normal">>)
    /\ nextId' = nextId + 1
    /\ Forget
    /\ UNCHANGED <<finalHandler, parent, muxes>>
    /\ OnlyLayer

\* Vinxi.Layer.UsePriority(phase, priority, handler)
UsePriority ==
    /\ nextId <= MaxHandlers
    /\ \E ph \in Phases, pr \in Priorities :
          /\ pool' = LayerUsePriority(pool, ph, pr, Plain(nextId))
          /\ regLog' = Append(regLog, <<Plain(nextId), ph, pr>>)
    /\ nextId' = nextId + 1
    /\ Forget
    /\ UNCHANGED <<finalHandler, parent, muxes>>
    /\ OnlyLayer

\* Vinxi.UseFinalHandler(fn) and Vinxi.SetForwader(fn)
UseFinalHandler ==
    /\ finalHandler' = "Custom"
    /\ finalHandler # "Custom"
    /\ Forget
    /\ UNCHANGED <<pool, parent, muxes, nextId, regLog>>
    /\ OnlyLayer

\* Vinxi.Forward(uri)
Forward ==
    /\ finalHandler' = "ForwardTo"
    /\ finalHandler # "ForwardTo"
    /\ Forget
    /\ UNCHANGED <<pool, parent, muxes, nextId, regLog>>
    /\ OnlyLayer

\* Vinxi.Flush()
Flush ==
    /\ pool # EmptyPool
    /\ pool' = EmptyPool
    /\ regLog' = <<>>
    /\ muxes' = [k \in 1..MaxMux |-> NoMux]
    /\ Forget
    /\ UNCHANGED <<finalHandler, parent, nextId>>
    /\ OnlyLayer

\* Vinxi.SetParent(parent)
SetParent ==
    /\ ~parent
    /\ parent' = TRUE
    /\ Forget
    /\ UNCHANGED <<pool, finalHandler, muxes, nextId, regLog>>
    /\ OnlyLayer

\* Vinxi.Mux(matchers...) with only the first matcher registered.
MuxFirstMatcherOnly(k, ms) ==
    /\ ~muxes[k].made
    /\ muxes' = [muxes EXCEPT ![k] =
                   [matchers |-> IF ms = {} THEN {} ELSE {CHOOSE x \in ms : \A y \in ms : x <= y},
                    passed |-> ms, nested |-> <<>>, made |-> TRUE]]
    /\ pool' = LayerUse(pool, "request", MuxH(k))
    /\ regLog' = Append(regLog, <<MuxH(k), "request", "Normal">>)
    /\ Forget
    /\ UNCHANGED <<finalHandler, parent, nextId>>
    /\ OnlyLayer

\* Vinxi.Mux(matchers...): a new multiplexer with the matchers, bound to the layer.
Mux(k, ms) ==
    /\ ~muxes[k].made
    /\ muxes' = [muxes EXCEPT ![k] = [matchers |-> ms, passed |-> ms, nested |-> <<>>, made |-> TRUE]]
    /\ pool' = LayerUse(pool, "request", MuxH(k))
    /\ regLog' = Append(regLog, <<MuxH(k), "request", "Normal">>)
    /\ Forget
    /\ UNCHANGED <<finalHandler, parent, nextId>>
    /\ OnlyLayer

NewMux == \E k \in 1..MaxMux, ms \in SUBSET Matchers :
             /\ \A j \in 1..(k-1) : muxes[j].made
             /\ Mux(k, ms)

\* mux.Mux.Use(handler): a handler nested under the gate.
MuxUse ==
    /\ nextId <= MaxHandlers
    /\ \E k \in 1..MaxMux :
          /\ muxes[k].made
          /\ muxes' = [muxes EXCEPT ![k].nested = Append(@, Plain(nextId))]
    /\ nextId' = nextId + 1
    /\ Forget
    /\ UNCHANGED <<pool, finalHandler, parent, regLog>>
    /\ OnlyLayer

\* The matchers some multiplexer evaluates.
UsedMatchers == UNION {muxes[k].matchers \cup muxes[k].passed : k \in 1..MaxMux}

\* The requests of a phase: which handler (0: none) stops the chain, whether a
\* route matches, which matchers accept, whether a parent handler stops.
Requests(ph) ==
    [phase : {ph}, stopper : 0..(nextId - 1), route : BOOLEAN,
     match : SUBSET UsedMatchers, parentStops : IF parent THEN BOOLEAN ELSE {FALSE}]

\* Vinxi.ServeHTTP: run the request phase with no caller continuation.
ServeHTTP ==
    /\ \E r \in Requests("request") :
          /\ req' = r
          /\ trace' = LayerRun(r)
    /\ UNCHANGED <<pool, finalHandler, parent, muxes, nextId, regLog>>
    /\ OnlyLayer

\* Layer.Run of another phase (the engine's error phase).
RunPhase ==
    /\ \E r \in Requests("error") :
          /\ req' = r
          /\ trace' = LayerRun(r)
    /\ UNCHANGED <<pool, finalHandler, parent, muxes, nextId, regLog>>
    /\ OnlyLayer

\* The proxy layer: registration at every phase and priority, the final
\* handler, the parent and the runs of the phases.
NextLayer ==
    \/ Use \/ UsePhase \/ UsePriority \/ UseFinalHandler \/ Forward \/ Flush
    \/ SetParent \/ ServeHTTP \/ RunPhase

\* The proxy layer with multiplexers bound to it.
NextMux == Use \/ NewMux \/ MuxUse \/ ServeHTTP
----------------------------------------------------------------------------
\* The rule registry (rule/rules.go) and the catalogue of the manager.
MaxRuleNames == 2
MaxInfo == 2
MaxWriters == 2

RuleNames == 1..MaxRuleNames
Infos == 1..MaxInfo
Writers == 1..MaxWriters

Idle == [name |-> 0, info |-> 0]
NoLookup == [op |-> "none", name |-> 0, kind |-> "none", val |-> 0, racing |-> FALSE]

OnlyRules == UNCHANGED <<layerVars, adminVars>>

InitRules ==
    /\ Rules = [n \in RuleNames |-> 0]
    /\ writers = [w \in Writers |-> Idle]
    /\ lookup = NoLookup
    /\ aborted = FALSE

\* The Register calls in the middle of their map assignment.
Writing == {w \in Writers : writers[w] # Idle}

\* What a read of Rules[name] can return. The map is a plain Go map with no
\* lock: a read that runs while a Register call writes the map is a data race,
\* which returns the entry as it was, the entry being written, a partially
\* written entry, or ends in the runtime's fatal "concurrent map read and map
\* write".
ReadMap(name) ==
    IF Writing = {}
    THEN {[kind |-> "value", val |-> Rules[name]]}
    ELSE {[kind |-> "value", val |-> Rules[name]]}
         \cup {[kind |-> "value", val |-> writers[w].info] : w \in {x \in Writing : writers[x].name = name}}
         \cup {[kind |-> "torn", val |-> 0], [kind |-> "fatal", val |-> 0]}

\* rule.Register, first half: the map assignment Rules[rule.Name] = rule begins.
\* A second writer of the map at the same time is the runtime's fatal
\* "concurrent map writes" or goes undetected.
RegisterBegin(w) ==
    /\ ~aborted
    /\ writers[w] = Idle
    /\ \E n \in RuleNames, i \in Infos :
          writers' = [writers EXCEPT ![w] = [name |-> n, info |-> i]]
    /\ \/ aborted' = FALSE
       \/ Writing # {} /\ aborted' = TRUE
    /\ UNCHANGED <<Rules, lookup>>
    /\ OnlyRules

\* rule.Register, second half: the entry is in the map.
RegisterEnd(w) ==
    /\ ~aborted
    /\ writers[w] # Idle
    /\ Rules' = [Rules EXCEPT ![writers[w].name] = writers[w].info]
    /\ writers' = [writers EXCEPT ![w] = Idle]
    /\ UNCHANGED <<lookup, aborted>>
    /\ OnlyRules

Register == \E w \in Writers : RegisterBegin(w) \/ RegisterEnd(w)

Observe(op, name, r) ==
    /\ lookup' = [op |-> op, name |-> name, kind |-> r.kind, val |-> r.val,
                  racing |-> Writing # {}]
    /\ aborted' = (r.kind \in {"fatal", "panic"})

\* rule.Exists(name): whether the map holds the name (the entry read is not 0).
RuleExists ==
    /\ ~aborted
    /\ \E n \in RuleNames : \E r \in ReadMap(n) : Observe("Exists", n, r)
    /\ UNCHANGED <<Rules, writers>>
    /\ OnlyRules

\* rule.Get(name): the factory of the entry, nil when the name has none.
RuleGet ==
    /\ ~aborted
    /\ \E n \in RuleNames : \E r \in ReadMap(n) : Observe("Get", n, r)
    /\ UNCHANGED <<Rules, writers>>
    /\ OnlyRules

\* rule.GetInfo(name): the entry, the zero Info when the name has none.
RuleGetInfo ==
    /\ ~aborted
    /\ \E n \in RuleNames : \E r \in ReadMap(n) : Observe("GetInfo", n, r)
    /\ UNCHANGED <<Rules, writers>>
    /\ OnlyRules

\* rule.Init(name, opts): panics when Exists(name) is false, and otherwise
\* returns the rule the entry's factory makes.
RuleInit ==
    /\ ~aborted
    /\ \E n \in RuleNames : \E e \in ReadMap(n) :
          IF e.kind = "value" /\ e.val = 0
          THEN Observe("Init", n, [kind |-> "panic", val |-> 0])
          ELSE IF e.kind # "value"
               THEN Observe("Init", n, e)
               ELSE \E r \in ReadMap(n) :
                       Observe("Init", n, IF r.kind = "value" /\ r.val = 0
                                          THEN [kind |-> "panic", val |-> 0]
                                          ELSE r)
    /\ UNCHANGED <<Rules, writers>>
    /\ OnlyRules

\* GET /catalog: the loop over rule.Rules. The name 0 stands for the whole map.
Catalog ==
    /\ ~aborted
    /\ \/ Observe("Catalog", 0, [kind |-> "value", val |-> 0])
       \/ /\ Writing # {}
          /\ \E k \in {"torn", "fatal"} : Observe("Catalog", 0, [kind |-> k, val |-> 0])
    /\ UNCHANGED <<Rules, writers>>
    /\ OnlyRules

NextRules == Register \/ RuleExists \/ RuleGet \/ RuleGetInfo \/ RuleInit \/ Catalog

----------------------------------------------------------------------------
\* The manager: plugin sets of the manager and of the scopes, and the HTTP
\* controllers over them (manager/api.go and the plugins controller).
MaxPlugins == 2
MaxScopes == 2

PluginIds == 1..MaxPlugins
ScopeIds == 1..MaxScopes
\* ctx.Scope of a controller call: a scope, or 0 when the route names none.
Targets == 0..MaxScopes

\* The names a create request can carry, the empty name included, and the
\* names plugin.Plugins holds a factory for.
PluginNames == {"", "auth", "nope"}
Registered == {"auth"}
Configs == {"ok", "rejected"}

NoPlugin == [name |-> "", enabled |-> FALSE, made |-> FALSE]
NoInput == [parsed |-> FALSE, name |-> "", cfg |-> "ok"]
\* The bodies of a create request: one that does not parse, or a name and a
\* configuration.
Bodies == {NoInput} \cup [parsed : {TRUE}, name : PluginNames, cfg : Configs]
NoResp == [op |-> "none", target |-> 0, plugin |-> 0, input |-> NoInput, status |-> 0,
           body |-> <<>>, before |-> <<>>]
IdleFlight == [stage |-> "idle", chain |-> <<>>, pchain |-> <<>>, raced |-> FALSE]

OnlyAdmin == UNCHANGED <<layerVars, ruleVars>>

InitAdmin ==
    /\ plugins = [p \in PluginIds |-> NoPlugin]
    /\ managerPlugins = <<>>
    /\ scopes = [s \in ScopeIds |-> [present |-> TRUE, plugins |-> <<>>]]
    /\ resp = NoResp
    /\ flight = IdleFlight
    /\ applied = <<>>

\* The plugin sets as a controller finds them.
Sets == [mgr |-> managerPlugins, sc |-> [s \in ScopeIds |-> scopes[s].plugins]]

\* The first unused plugin id (utils.NewID), 0 when the model has none left.
FreshPlugin ==
    IF \E p \in PluginIds : ~plugins[p].made
    THEN CHOOSE p \in PluginIds : ~plugins[p].made /\ \A q \in PluginIds : q < p => plugins[q].made
    ELSE 0

Has(seq, x) == \E i \in 1..Len(seq) : seq[i] = x
Without(seq, x) == SelectSeq(seq, LAMBDA y : y # x)

\* plugin.Get(name): the factory of a registered name, nil otherwise.
PluginGet(name) == name \in Registered

\* createPlugin of manager/api.go: the JSON form of the plugin with the id p;
\* the Enabled field is not set and keeps its zero value.
createPlugin(p, inst) == [id |-> p, name |-> inst.name, enabled |-> FALSE]

\* createPlugin of the plugins controller; the Enabled field is not set.
CtlCreatePlugin(p, inst) == [id |-> p, name |-> inst.name, enabled |-> FALSE]

RECURSIVE ApiLoop(_, _, _)
\* The loop of createPlugins in manager/api.go: list[i] = createPlugin(plugin)
\* on a list made with length 0; an index past the length panics.
ApiLoop(ps, i, list) ==
    IF i > Len(ps) THEN [panic |-> FALSE, list |-> list]
    ELSE IF i > Len(list) THEN [panic |-> TRUE, list |-> list]
    ELSE ApiLoop(ps, i + 1, [list EXCEPT ![i] = createPlugin(ps[i], plugins[ps[i]])])

\* createPlugins of manager/api.go.
createPlugins(ps) == ApiLoop(ps, 1, <<>>)

RECURSIVE CtlLoop(_, _, _)
CtlLoop(ps, i, list) ==
    IF i > Len(ps) THEN [panic |-> FALSE, list |-> list]
    ELSE CtlLoop(ps, i + 1, Append(list, CtlCreatePlugin(ps[i], plugins[ps[i]])))

\* createPlugins of the plugins controller: list = append(list, createPlugin(plugin)).
CtlCreatePlugins(ps) == CtlLoop(ps, 1, <<>>)

\* The answer of a listing: the JSON list, or no answer when the handler panicked.
Listing(op, t, r) ==
    [op |-> op, target |-> t, plugin |-> 0, input |-> NoInput,
     status |-> IF r.panic THEN 0 ELSE 200,
     body |-> IF r.panic THEN <<>> ELSE r.list, before |-> Sets]

Answer(op, t, p, in, status, body) ==
    [op |-> op, target |-> t, plugin |-> p, input |-> in, status |-> status,
     body |-> body, before |-> Sets]

\* The plugin set a controller call with ctx.Scope = t reads.
SetOf(t) == IF t = 0 THEN managerPlugins ELSE scopes[t].plugins

\* PluginsController.List
List ==
    /\ flight.stage = "idle"
    /\ \E t \in Targets :
          /\ t # 0 => scopes[t].present
          /\ resp' = Listing("List", t, CtlCreatePlugins(SetOf(t)))
    /\ applied' = <<>>
    /\ UNCHANGED <<plugins, managerPlugins, scopes, flight>>
    /\ OnlyAdmin

\* PluginsController.Get
Get ==
    /\ flight.stage = "idle"
    /\ \E t \in Targets :
          /\ t # 0 => scopes[t].present
          /\ \E i \in 1..Len(SetOf(t)) :
                resp' = Answer("Get", t, SetOf(t)[i], NoInput, 200,
                               <<CtlCreatePlugin(SetOf(t)[i], plugins[SetOf(t)[i]])>>)
    /\ applied' = <<>>
    /\ UNCHANGED <<plugins, managerPlugins, scopes, flight>>
    /\ OnlyAdmin

\* PluginsController.Delete: ctx.Manager.RemovePlugin(ctx.Plugin.ID()).
Delete ==
    /\ flight.stage = "idle"
    /\ \E t \in Targets :
          /\ t # 0 => scopes[t].present
          /\ \E i \in 1..Len(SetOf(t)) :
                LET p == SetOf(t)[i] IN
                IF Has(managerPlugins, p)
                THEN /\ managerPlugins' = Without(managerPlugins, p)
                     /\ plugins' = [plugins EXCEPT ![p] = NoPlugin]
                     /\ resp' = Answer("Delete", t, p, NoInput, 204, <<>>)
                ELSE /\ resp' = Answer("Delete", t, p, NoInput, 500, <<>>)
                     /\ UNCHANGED <<managerPlugins, plugins>>
    /\ applied' = <<>>
    /\ UNCHANGED <<scopes, flight>>
    /\ OnlyAdmin

\* The instance a factory makes: enabled, with the factory's name.
NewInstance(name) == [name |-> name, enabled |-> TRUE, made |-> TRUE]

\* PluginsController.Create with the instance inserted although the factory
\* rejected the configuration (no return after the error is sent).
CreateNoReturnOnError(t, in) ==
    IF ~in.parsed
    THEN /\ resp' = Answer("Create", t, 0, in, 400, <<>>)
         /\ UNCHANGED <<plugins, managerPlugins>>
    ELSE IF in.name = ""
    THEN /\ resp' = Answer("Create", t, 0, in, 400, <<>>)
         /\ UNCHANGED <<plugins, managerPlugins>>
    ELSE IF ~PluginGet(in.name)
    THEN /\ resp' = Answer("Create", t, 0, in, 404, <<>>)
         /\ UNCHANGED <<plugins, managerPlugins>>
    ELSE /\ FreshPlugin # 0
         /\ plugins' = [plugins EXCEPT ![FreshPlugin] = NewInstance(in.name)]
         /\ managerPlugins' = Append(managerPlugins, FreshPlugin)
         /\ resp' = IF in.cfg = "rejected"
                    THEN Answer("Create", t, 0, in, 400, <<>>)
                    ELSE Answer("Create", t, FreshPlugin, in, 200,
                                <<CtlCreatePlugin(FreshPlugin, NewInstance(in.name))>>)

\* PluginsController.Create: parse the body (ParseBody answers 400 itself),
\* require the name, look the factory up, make the instance and add it with
\* ctx.Manager.UsePlugin, whatever ctx.Scope is.
Create(t, in) ==
    IF ~in.parsed
    THEN /\ resp' = Answer("Create", t, 0, in, 400, <<>>)
         /\ UNCHANGED <<plugins, managerPlugins>>
    ELSE IF in.name = ""
    THEN /\ resp' = Answer("Create", t, 0, in, 400, <<>>)
         /\ UNCHANGED <<plugins, managerPlugins>>
    ELSE IF ~PluginGet(in.name)
    THEN /\ resp' = Answer("Create", t, 0, in, 404, <<>>)
         /\ UNCHANGED <<plugins, managerPlugins>>
    ELSE IF in.cfg = "rejected"
    THEN /\ resp' = Answer("Create", t, 0, in, 400, <<>>)
         /\ UNCHANGED <<plugins, managerPlugins>>
    ELSE /\ FreshPlugin # 0
         /\ plugins' = [plugins EXCEPT ![FreshPlugin] = NewInstance(in.name)]
         /\ managerPlugins' = Append(managerPlugins, FreshPlugin)
         /\ resp' = Answer("Create", t, FreshPlugin, in, 200,
                           <<CtlCreatePlugin(FreshPlugin, NewInstance(in.name))>>)

CreatePlugin ==
    /\ flight.stage = "idle"
    /\ \E t \in Targets, in \in Bodies :
          /\ t # 0 => scopes[t].present
          /\ Create(t, in)
    /\ applied' = <<>>
    /\ UNCHANGED <<scopes, flight>>
    /\ OnlyAdmin

\* GET /plugins
ApiGetPlugins ==
    /\ flight.stage = "idle"
    /\ resp' = Listing("ApiGetPlugins", 0, createPlugins(managerPlugins))
    /\ applied' = <<>>
    /\ UNCHANGED <<plugins, managerPlugins, scopes, flight>>
    /\ OnlyAdmin

\* GET /instances/:instance/scopes/:scope/plugins
ApiGetScopePlugins ==
    /\ flight.stage = "idle"
    /\ \E s \in ScopeIds :
          /\ scopes[s].present
          /\ resp' = Listing("ApiGetScopePlugins", s, createPlugins(scopes[s].plugins))
    /\ applied' = <<>>
    /\ UNCHANGED <<plugins, managerPlugins, scopes, flight>>
    /\ OnlyAdmin

\* DELETE /instances/:instance/scopes/:scope/plugins/:plugin: ctx.Scope.RemovePlugin.
ApiDeleteScopePlugin ==
    /\ flight.stage = "idle"
    /\ \E s \in ScopeIds :
          /\ scopes[s].present
          /\ \E i \in 1..Len(scopes[s].plugins) :
                LET p == scopes[s].plugins[i] IN
                /\ scopes' = [scopes EXCEPT ![s].plugins = Without(@, p)]
                /\ plugins' = [plugins EXCEPT ![p] = NoPlugin]
                /\ resp' = Answer("ApiDeleteScopePlugin", s, p, NoInput, 204, <<>>)
    /\ applied' = <<>>
    /\ UNCHANGED <<managerPlugins, flight>>
    /\ OnlyAdmin

\* Scope.UsePlugin(instance): a plugin of a registered factory attached to the
\* scope by the program that configures the proxy, before traffic is served.
ScopeUsePlugin ==
    /\ flight.stage = "idle"
    /\ FreshPlugin # 0
    /\ \E s \in ScopeIds :
          /\ scopes[s].present
          /\ scopes' = [scopes EXCEPT ![s].plugins = Append(@, FreshPlugin)]
    /\ plugins' = [plugins EXCEPT ![FreshPlugin] = NewInstance("auth")]
    /\ resp' = NoResp
    /\ applied' = <<>>
    /\ UNCHANGED <<managerPlugins, flight>>
    /\ OnlyAdmin

\* Plugin.Disable()
Disable ==
    /\ flight.stage = "idle"
    /\ \E p \in PluginIds :
          /\ plugins[p].made /\ plugins[p].enabled
          /\ plugins' = [plugins EXCEPT ![p].enabled = FALSE]
    /\ resp' = NoResp
    /\ applied' = <<>>
    /\ UNCHANGED <<managerPlugins, scopes, flight>>
    /\ OnlyAdmin

\* Plugin.Enable()
Enable ==
    /\ flight.stage = "idle"
    /\ \E p \in PluginIds :
          /\ plugins[p].made /\ ~plugins[p].enabled
          /\ plugins' = [plugins EXCEPT ![p].enabled = TRUE]
    /\ resp' = NoResp
    /\ applied' = <<>>
    /\ UNCHANGED <<managerPlugins, scopes, flight>>
    /\ OnlyAdmin

\* The enabled plugins of a list, in order: a disabled plugin is skipped.
EnabledOf(ps) == SelectSeq(ps, LAMBDA p : plugins[p].enabled)

RECURSIVE RunScopes(_)
\* The plugins of the present scopes from scope s on, in scope order.
RunScopes(s) ==
    IF s > MaxScopes THEN <<>>
    ELSE (IF scopes[s].present THEN EnabledOf(scopes[s].plugins) ELSE <<>>) \o RunScopes(s + 1)

\* One proxied request run to its end: the manager's plugins, then the
\* plugins of every scope of the instance.
ServeRequest ==
    /\ flight.stage = "idle"
    /\ applied' = EnabledOf(managerPlugins) \o RunScopes(1)
    /\ resp' = NoResp
    /\ UNCHANGED <<plugins, managerPlugins, scopes, flight>>
    /\ OnlyAdmin

\* Instance.RemoveScope that unlinks the scope's layer in place, under the
\* request that is running through it.
RemoveScopeInPlace(s) ==
    /\ scopes' = [scopes EXCEPT ![s].present = FALSE]
    /\ flight' = IF flight.stage = "plugins" /\ Head(flight.chain) = s
                 THEN [flight EXCEPT !.raced = TRUE, !.pchain = <<>>]
                 ELSE flight

\* Instance.RemoveScope: the scope leaves the instance's list in one step; the
\* detached scope keeps its plugins, and a request that entered it keeps the
\* chain it built.
RemoveScope(s) ==
    /\ scopes' = [scopes EXCEPT ![s].present = FALSE]
    /\ flight' = IF flight.stage = "plugins" /\ Head(flight.chain) = s
                 THEN [flight EXCEPT !.raced = TRUE]
                 ELSE flight

\* DELETE /instances/:instance/scopes/:scope
ApiDeleteScope ==
    /\ \E s \in ScopeIds :
          /\ scopes[s].present
          /\ RemoveScope(s)
          /\ resp' = Answer("ApiDeleteScope", s, 0, NoInput, 204, <<>>)
    /\ UNCHANGED <<plugins, managerPlugins, applied>>
    /\ OnlyAdmin

RECURSIVE PresentFrom(_)
\* The scopes of the instance, in order, from scope s on.
PresentFrom(s) ==
    IF s > MaxScopes THEN <<>>
    ELSE (IF scopes[s].present THEN <<s>> ELSE <<>>) \o PresentFrom(s + 1)

\* A request enters the instance: the manager's plugins run and the request
\* takes the instance's scopes as they are.
ReqEnter ==
    /\ flight.stage = "idle"
    /\ flight' = [stage |-> "scopes", chain |-> PresentFrom(1), pchain |-> <<>>, raced |-> FALSE]
    /\ applied' = EnabledOf(managerPlugins)
    /\ resp' = NoResp
    /\ UNCHANGED <<plugins, managerPlugins, scopes>>
    /\ OnlyAdmin

\* The request reaches the next scope and takes its plugin chain, or has no
\* scope left.
ReqScope ==
    /\ flight.stage = "scopes"
    /\ flight' = IF flight.chain = <<>>
                 THEN [flight EXCEPT !.stage = "done"]
                 ELSE [flight EXCEPT !.stage = "plugins",
                                     !.pchain = scopes[Head(flight.chain)].plugins]
    /\ UNCHANGED <<plugins, managerPlugins, scopes, resp, applied>>
    /\ OnlyAdmin

\* The next plugin of the scope handles the request, or the scope is done.
ReqPlugin ==
    /\ flight.stage = "plugins"
    /\ IF flight.pchain = <<>>
       THEN /\ flight' = [flight EXCEPT !.stage = "scopes", !.chain = Tail(@)]
            /\ UNCHANGED applied
       ELSE /\ flight' = [flight EXCEPT !.pchain = Tail(@)]
            /\ applied' = IF plugins[Head(flight.pchain)].enabled
                          THEN Append(applied, Head(flight.pchain))
                          ELSE applied
    /\ UNCHANGED <<plugins, managerPlugins, scopes, resp>>
    /\ OnlyAdmin

\* The response is sent.
ReqDone ==
    /\ flight.stage = "done"
    /\ flight' = IdleFlight
    /\ applied' = <<>>
    /\ UNCHANGED <<plugins, managerPlugins, scopes, resp>>
    /\ OnlyAdmin

NextManager ==
    \/ List \/ Get \/ Delete \/ CreatePlugin \/ ApiGetPlugins \/ ApiGetScopePlugins
    \/ ApiDeleteScopePlugin \/ ApiDeleteScope \/ ScopeUsePlugin \/ Disable \/ Enable
    \/ ServeRequest

\* Requests that run through the scopes while scopes are removed.
NextScopes ==
    \/ ScopeUsePlugin \/ CreatePlugin \/ ApiDeleteScope
    \/ ReqEnter \/ ReqScope \/ ReqPlugin \/ ReqDone

----------------------------------------------------------------------------
Init == InitLayer /\ InitRules /\ InitAdmin

SpecLayer == Init /\ [][NextLayer]_vars

SpecMux == Init /\ [][NextMux]_vars

SpecRules == Init /\ [][NextRules]_vars

SpecManager == Init /\ [][NextManager]_vars

SpecScopes == Init /\ [][NextScopes]_vars

----------------------------------------------------------------------------
\* Helpers of the statements about runs.
Pos(seq, x) == CHOOSE i \in 1..Len(seq) : seq[i] = x
Occurs(seq, x) == \E i \in 1..Len(seq) : seq[i] = x
RunDone == req.phase # "none"
\* The registrations of the phase of the last run, as positions of regLog.
RegsOf(ph) == {i \in 1..Len(regLog) : regLog[i][2] = ph}
\* Some handler of the last run did not invoke its continuation.
Stopped ==
    \/ req.stopper # 0 /\ Occurs(trace, Plain(req.stopper))
    \/ req.route /\ Occurs(trace, Router)
FinalInvoked == \E i \in 1..Len(trace) : trace[i][1] = "final"

\* C1: in a run of a phase in which every handler invokes its continuation,
\* every registered handler of the phase is invoked, a handler registered at a
\* lower priority (Head < Normal < Tail) is invoked before one registered at a
\* higher priority whatever the order of the registration calls, handlers of
\* one priority run in registration order, and the Router of New() runs after
\* every handler added with Use().
C1_PriorityOrder ==
    (RunDone /\ ~Stopped) =>
        /\ \A i \in RegsOf(req.phase) : Occurs(trace, regLog[i][1])
        /\ \A i, j \in RegsOf(req.phase) :
              (\/ PrioRank(regLog[i][3]) < PrioRank(regLog[j][3])
               \/ (regLog[i][3] = regLog[j][3] /\ i < j))
              => Pos(trace, regLog[i][1]) < Pos(trace, regLog[j][1])
        /\ (req.phase = "request" /\ Occurs(trace, Router)) =>
              \A i \in RegsOf("request") :
                  (regLog[i][1] # Router /\ regLog[i][3] = "Normal")
                  => Pos(trace, regLog[i][1]) < Pos(trace, Router)

\* C1 witness: a handler added with Use() and then one registered at Head, run
\* in the request phase with the Router: Head, Normal, Router.
C1_Witness ==
    /\ RunDone /\ ~Stopped /\ req.phase = "request"
    /\ \E i, j \in RegsOf("request") :
          /\ i < j /\ regLog[i][3] = "Normal" /\ regLog[j][3] = "Head"
          /\ Pos(trace, regLog[j][1]) < Pos(trace, regLog[i][1])
          /\ Occurs(trace, Router)
          /\ Pos(trace, regLog[i][1]) < Pos(trace, Router)

\* C2: a request served by a layer with no parent either is stopped by a
\* handler (a short-circuit or a matching route) or ends with exactly one
\* invocation of the layer's final handler, as the last step of the run; when
\* nothing stops the chain the final handler is invoked exactly once.
C2_FinalHandlerReached ==
    (RunDone /\ req.phase = "request" /\ ~parent) =>
        /\ Stopped => ~FinalInvoked
        /\ ~Stopped =>
              /\ Len(trace) > 0
              /\ trace[Len(trace)] = Final(finalHandler)
              /\ Cardinality({i \in 1..Len(trace) : trace[i][1] = "final"}) = 1

\* C2 witness: a request ran through a handler and the Router without a stop
\* and reached the final handler.
C2_Witness ==
    /\ RunDone /\ req.phase = "request" /\ ~parent /\ ~Stopped
    /\ Occurs(trace, Router)
    /\ \E i \in 1..Len(trace) : trace[i][1] = "h"
    /\ trace[Len(trace)] = Final(finalHandler)

\* The handler after the multiplexer k in the enclosing layer, or the final handler.
AfterMux(k) ==
    LET q == Join(pool["request"])
        i == Pos(q, MuxH(k))
    IN  IF i < Len(q) THEN q[i + 1] ELSE Final(finalHandler)

C5_InitReturnsUnknownFactory ==
    (lookup.op = "Init" /\ ~lookup.racing) =>
        /\ ~aborted
        /\ lookup.kind \in {"value", "UnknownFactory"}
        /\ (Rules[lookup.name] = 0) => lookup.kind = "UnknownFactory"
        /\ (Rules[lookup.name] # 0) => (lookup.kind = "value" /\ lookup.val = Rules[lookup.name])

\* C6: no lookup that runs while a Register call writes the registry observes
\* a partially written entry or ends the process, and no two Register calls
\* write the registry at the same time.
C6_RegistrySafe ==
    /\ lookup.kind \notin {"torn", "fatal"}
    /\ Cardinality(Writing) <= 1

\* Helpers of the statements about the manager.
SeqSet(seq) == {seq[i] : i \in 1..Len(seq)}
BeforeSet(t) == IF t = 0 THEN resp.before.mgr ELSE resp.before.sc[t]
ListingOps == {"List", "ApiGetPlugins", "ApiGetScopePlugins"}

\* C3: a request that ran through the instance while scopes were removed
\* invoked, of each scope, either every plugin of the scope or none of them.
C3_RemoveScopeAtomic ==
    flight.stage = "done" =>
        \A s \in ScopeIds :
            \/ SeqSet(scopes[s].plugins) \cap SeqSet(applied) = {}
            \/ SeqSet(scopes[s].plugins) \subseteq SeqSet(applied)

\* C3 witness: a scope of two plugins was removed while the request was
\* running through it, and the request invoked both plugins.
C3_Witness ==
    /\ flight.stage = "done" /\ flight.raced
    /\ \E s \in ScopeIds :
          /\ ~scopes[s].present
          /\ Len(scopes[s].plugins) >= 2
          /\ SeqSet(scopes[s].plugins) \subseteq SeqSet(applied)

\* C4: a create whose name has no registered factory is answered with the
\* not-found error (a missing name with the bad-request error), one whose
\* configuration the factory rejects with the bad-request error, and in each
\* case every plugin set is as it was before the call.
C4_FailedCreateLeavesSets ==
    (resp.op = "Create" /\ resp.input.parsed) =>
        /\ (resp.input.name \notin Registered /\ resp.input.name # "") =>
              (resp.status = 404 /\ Sets = resp.before)
        /\ (resp.input.name = "") => (resp.status = 400 /\ Sets = resp.before)
        /\ (resp.input.name \in Registered /\ resp.input.cfg = "rejected") =>
              (resp.status = 400 /\ Sets = resp.before)

\* C4 witness: a create of an unregistered name was answered 404 with a
\* plugin set that holds a plugin.
C4_Witness ==
    /\ resp.op = "Create" /\ resp.input.parsed /\ resp.input.name = "nope"
    /\ resp.status = 404
    /\ managerPlugins # <<>>
    /\ Sets = resp.before

\* C8: a successful create against a scope (or the manager) appends the new
\* instance to the plugin set that the listing of that scope (or the manager)
\* reads, a delete against it removes the plugin from that set, and every
\* other plugin set is left as it was.
C8_CreateDeleteOnListedSet ==
    /\ (resp.op = "Create" /\ resp.status = 200) =>
          /\ SetOf(resp.target) = Append(BeforeSet(resp.target), resp.plugin)
          /\ \A u \in Targets : u # resp.target => SetOf(u) = BeforeSet(u)
    /\ (resp.op \in {"Delete", "ApiDeleteScopePlugin"}) =>
          /\ SetOf(resp.target) = Without(BeforeSet(resp.target), resp.plugin)
          /\ ~Has(SetOf(resp.target), resp.plugin)
          /\ \A u \in Targets : u # resp.target => SetOf(u) = BeforeSet(u)

\* C9: a request never invokes a disabled plugin, and a listing that is
\* answered returns every plugin of its set, the disabled ones included, with
\* the enabled flag the plugin has.
C9_DisabledSkippedAndListed ==
    /\ \A i \in 1..Len(applied) : plugins[applied[i]].enabled
    /\ (resp.op \in ListingOps /\ resp.status = 200) =>
          \A i \in 1..Len(SetOf(resp.target)) :
              \E j \in 1..Len(resp.body) :
                  /\ resp.body[j].id = SetOf(resp.target)[i]
                  /\ resp.body[j].enabled = plugins[SetOf(resp.target)[i]].enabled

\* C10: a listing of a set of n plugins is answered with exactly n entries,
\* the i-th the JSON form of the i-th plugin, leaves the set as it was, and
\* both definitions of createPlugins give the same list.
C10_EnumerationTotal ==
    (resp.op \in ListingOps) =>
        /\ resp.status = 200
        /\ Len(resp.body) = Len(SetOf(resp.target))
        /\ \A i \in 1..Len(resp.body) :
              resp.body[i] = createPlugin(SetOf(resp.target)[i], plugins[SetOf(resp.target)[i]])
        /\ Sets = resp.before
        /\ createPlugins(SetOf(resp.target)) = CtlCreatePlugins(SetOf(resp.target))
====
